---- MODULE Spec2Model ----
(***************************************************************************)
(* State-machine model of the APCEMM plume driver, PlumeModel()            *)
(* (src/src/Core/PlumeModel.cpp): the time grid, the time loop with its    *)
(* operator-split stages, the chemistry failure path and the output        *)
(* writes.  Times are in seconds, as in the driver.                        *)
(***************************************************************************)
EXTENDS Integers, Sequences, FiniteSets, TLC

(***************************************************************************)
(* Bounds of the model.                                                    *)
(***************************************************************************)
MaxTSimul == 25
NX == 2
NY == 1
NRING == 2
NPHOTOL == 2
MaxEmit == 5
NBIN == 2
NREACT == 2
NTHREAD == 2

\* Largest engine number considered.
MaxEngines == 4

(***************************************************************************)
(* Program constants.                                                      *)
(***************************************************************************)
SUCCESS == 1
KPP_FAIL == -1
SAVE_FAIL == -2

SAVE_FAILURE == 0
SAVE_SUCCESS == 1

HourS == 3600
DayS == 24 * HourS

TRANSPORT_TIMESTEP == 7200
LIQCOAG_TSTEP == 10800
ICECOAG_TSTEP == 14400
SAVE_LA_DT == 10800
SAVE_PA_DT == 14400

tEmission_h == 8 % 24
Background == 2
NSat == 3
FracDen == 4

(***************************************************************************)
(* State.  The first two lines are the build switches (preprocessor        *)
(* symbols of the driver); TRANSPORT_ON stands for DIFFUSION || ADVECTION. *)
(* TSIMUL, sunRise and sunSet (hours) are the inputs of the time grid.     *)
(* stage, fired, ambIdx, ringIdx, nKPP, dumped, kppFailed, photolSeen and  *)
(* written record what the driver has done: the last subsystem that ran,   *)
(* the optional subsystems that fired in the current step, the indices     *)
(* used on the ambient and ring records, the KPP_Main calls made, the call *)
(* whose rates were dumped, whether a call returned a negative status, the *)
(* photolysis rates the last call saw, and the writes made.                *)
(* EPM holds what the early-plume integration returned; emissions, solved, *)
(* gasTrav and kppLog record the emission injections made, the solver      *)
(* calls of the current transport stage with the advection they ran with,  *)
(* the displacement the gas-phase solver has applied, and the KPP_Main     *)
(* calls of the current step with the rate tables they read.  sweep is the *)
(* state of the invocations of a parameter sweep that share the tables.    *)
(* massIn and mass are the compositions the mass checks read and the sums  *)
(* they compute; SANDS holds the time step and diffusion coefficients of   *)
(* the two solvers; coagLog records the coagulation calls made and stepLog *)
(* what the current step has done to the fields and records so far.       *)
(***************************************************************************)
VARIABLES
    ADVECTION, DIFFUSION, HETCHEMISTRY, engNumber, EPM, LA_nDens, PA_nDens,
    emitSO4,
    Ice_den, Soot_den, areaPlume, liquidAer, iceAer,
    LA_MICROPHYSICS, PA_MICROPHYSICS, vFall, emissions,
    vGlob, GasPhaseAdv, MicroPhysAdv, solved, gasTrav,
    RCONST, HET, AerosolArea, varArray, kppLog, nRates, nHet,
    sweep,
    massIn, mass, SANDS, coagLog, stepLog,
    RINGS, CHEMISTRY, TRANSPORT_ON, LIQ_MICROPHYSICS, ICE_MICROPHYSICS,
    SAVE_OUTPUT, SAVE_LA_MICROPHYS, SAVE_PA_MICROPHYS,
    TSIMUL, sunRise, sunSet, timeArray,
    pc, curr_Time_s, dt, LAST_STEP, nTime,
    SO4, SO4L, SO4T,
    CSZA, PHOTOL,
    lastTimeLiqCoag, lastTimeIceCoag, dtLiqCoag, dtIceCoag,
    saveTime_LA, saveTime_PA, saveOutput_LA, saveOutput_PA,
    iRing, iNx, jNy, IERR, nKPP, dumped, kppFailed, photolSeen,
    isSaved, written, ret,
    stage, fired, ambIdx, ringIdx

inVars == <<ADVECTION, DIFFUSION, HETCHEMISTRY, engNumber, EPM, LA_nDens,
            PA_nDens, emitSO4>>
cfgVars == <<RINGS, CHEMISTRY, TRANSPORT_ON, LIQ_MICROPHYSICS, ICE_MICROPHYSICS,
             SAVE_OUTPUT, SAVE_LA_MICROPHYS, SAVE_PA_MICROPHYS,
             TSIMUL, sunRise, sunSet, timeArray, inVars>>
plumeVars == <<Ice_den, Soot_den, areaPlume, liquidAer, iceAer,
               LA_MICROPHYSICS, PA_MICROPHYSICS, vFall, emissions>>
advVars == <<vGlob, GasPhaseAdv, MicroPhysAdv, solved, gasTrav>>
histVars == <<massIn, mass, SANDS, coagLog, stepLog>>
rateVars == <<RCONST, HET, AerosolArea, varArray, kppLog, nRates, nHet>>
timeVars == <<curr_Time_s, dt, LAST_STEP, nTime>>
fieldVars == <<SO4, SO4L, SO4T>>
sunVars == <<CSZA, PHOTOL>>
coagVars == <<lastTimeLiqCoag, lastTimeIceCoag, dtLiqCoag, dtIceCoag>>
saveVars == <<saveTime_LA, saveTime_PA, saveOutput_LA, saveOutput_PA>>
loopVars == <<iRing, iNx, jNy>>
kppVars == <<IERR, nKPP, dumped, kppFailed, photolSeen>>
outVars == <<isSaved, written, ret>>
idxVars == <<ambIdx, ringIdx>>

vars == <<cfgVars, pc, timeVars, fieldVars, sunVars, coagVars, saveVars,
          loopVars, kppVars, outVars, stage, fired, idxVars,
          plumeVars, advVars, rateVars, sweep, histVars>>

(***************************************************************************)
(* Helpers.                                                                *)
(***************************************************************************)
Min(a, b) == IF a <= b THEN a ELSE b

SetMin(S) == CHOOSE x \in S : \A y \in S : x <= y

Range(s) == {s[i] : i \in 1..Len(s)}

Last(s) == s[Len(s)]

Cells == 1..(NX * NY)

(***************************************************************************)
(* Time.                                                                   *)
(***************************************************************************)
tInitial_h == tEmission_h
tFinal_h == tInitial_h + TSIMUL
tInitial_s == tInitial_h * HourS
tFinal_s == tFinal_h * HourS

\* Sunrise and sunset instants of day 0, 1, ... up to the day after `time'.
SunEvents(time, sunRise_s, sunSet_s) ==
    {sunRise_s + k * DayS : k \in 0..((time \div DayS) + 1)}
        \cup {sunSet_s + k * DayS : k \in 0..((time \div DayS) + 1)}

NextSunEvent(time, sunRise_s, sunSet_s) ==
    SetMin({e \in SunEvents(time, sunRise_s, sunSet_s) : e > time})

\* Step from `time': the transport time step, shortened so that the next
\* sunrise or sunset is not stepped over.  The final time is not an argument.
UpdateTime(time, tStart, sunRise_s, sunSet_s) ==
    Min(TRANSPORT_TIMESTEP, NextSunEvent(time, sunRise_s, sunSet_s) - time)

RECURSIVE BuildTimeFrom(_, _, _, _, _)
BuildTimeFrom(time, tStart, tFinal, sunRise_s, sunSet_s) ==
    IF time >= tFinal
    THEN <<>>
    ELSE LET next == Min(time + UpdateTime(time, tStart, sunRise_s, sunSet_s), tFinal)
         IN  <<next>> \o BuildTimeFrom(next, tStart, tFinal, sunRise_s, sunSet_s)

\* The time grid: starts at tStart, ends at tFinal, steps as UpdateTime does.
BuildTime(tStart, tFinal, sunRise_s, sunSet_s) ==
    <<tStart>> \o BuildTimeFrom(tStart, tStart, tFinal, sunRise_s, sunSet_s)

\* The same call with the final time left in hours.
TimeGrid_FinalInHours == BuildTime(tInitial_s, tFinal_h, HourS * sunRise, HourS * sunSet)

\* The same call with sunrise and sunset left in hours.
TimeGrid_SunInHours == BuildTime(tInitial_s, tFinal_s, sunRise, sunSet)

\* The call of the driver that creates timeArray.
TimeGrid == BuildTime(tInitial_s, tFinal_s, HourS * sunRise, HourS * sunSet)

\* The call of the driver that computes the step of an iteration.
StepSize == UpdateTime(curr_Time_s, tInitial_s, HourS * sunRise, HourS * sunSet)

\* timeArray[n] with the driver's 0-based index.
TimeAt(n) == timeArray[n + 1]

\* A record with one entry per time step only.
RecordSize_Short == Len(timeArray) - 1

\* Size handed to the constructors of the ambient and ring records.
RecordSize == Len(timeArray)

(***************************************************************************)
(* Sun and photolysis.                                                     *)
(***************************************************************************)
\* Cosine of the solar zenith angle at `time' (in model units): positive
\* strictly between sunrise and sunset, zero or negative otherwise.
SunUpdate(time) ==
    LET tod == time % DayS
    IN  Min(tod - HourS * sunRise, HourS * sunSet - tod) \div HourS

ZeroRates == [iPhotol \in 1..NPHOTOL |-> 0]

\* PHOTOL left as the previous step set it.
ClearPHOTOL_Stale(P) == P

\* The loop that clears PHOTOL at each step.
ClearPHOTOL(P) == ZeroRates

\* Table lookup: fills every entry; a zero CSZA yields the zero vector.
Read_JRates(P, csza) == [iPhotol \in 1..NPHOTOL |-> iPhotol * csza]

PhotolysisRates(P, csza) ==
    IF csza > 0 THEN Read_JRates(ClearPHOTOL(P), csza) ELSE ClearPHOTOL(P)

(***************************************************************************)
(* Fields on the mesh.                                                     *)
(***************************************************************************)
\* Exchange between two neighbouring cells over one step (antisymmetric).
Flux(a, b) == IF b >= a THEN (b - a) \div 4 ELSE 0 - ((a - b) \div 4)

RightOf(c) == IF c = NX * NY THEN 1 ELSE c + 1
LeftOf(c) == IF c = 1 THEN NX * NY ELSE c - 1

\* One transport step of one field on the periodic mesh: conserves the sum.
Solve(f) == [c \in Cells |-> f[c] + Flux(f[c], f[RightOf(c)]) + Flux(f[c], f[LeftOf(c)])]

\* Gaseous fraction of H2SO4, in units of 1/FracDen.
H2SO4_GASFRAC(T, so4) ==
    IF so4 <= NSat THEN FracDen ELSE (NSat * FracDen) \div so4

temperature_K == 220

\* (1.0 - frac_gSO4) * SO4T, rounded.
LiquidPart(frac, so4t) == ((FracDen - frac) * so4t) \div FracDen

\* The gas part computed as frac * SO4T instead of SO4T - SO4L.
PartitionCell_Product(so4, so4l, so4t) ==
    LET frac_gSO4 == H2SO4_GASFRAC(temperature_K, so4)
        liquid == LiquidPart(frac_gSO4, so4t)
    IN  [SO4L |-> liquid, SO4 |-> (frac_gSO4 * so4t) \div FracDen, SO4T |-> so4t]

\* Body of the partitioning loop for one cell: the new SO4L, SO4 and SO4T.
PartitionCell(so4, so4l, so4t) ==
    LET frac_gSO4 == H2SO4_GASFRAC(temperature_K, so4)
        liquid == LiquidPart(frac_gSO4, so4t)
    IN  [SO4L |-> liquid, SO4 |-> so4t - liquid, SO4T |-> so4t]

InitialField(emitted) == [c \in Cells |-> IF c = 1 THEN Background + emitted ELSE Background]

(***************************************************************************)
(* Early plume, aerosol populations and emission injection.                *)
(***************************************************************************)
Bins == 1..NBIN

ZeroPdf == [iBin \in Bins |-> 0]

RECURSIVE SumTo(_, _)
SumTo(f, n) == IF n = 0 THEN 0 ELSE f[n] + SumTo(f, n - 1)

\* Number density of a size distribution (its moment of order 0).
Moment(aer) == SumTo(aer, NBIN)

\* What the early-plume integration may return (densities are even numbers,
\* so that half the engine number scales them exactly).
EPMOutputs ==
    [Ice_den : {0, 2}, Soot_den : {2}, areaPlume : {3},
     liquidAer : {ZeroPdf, [iBin \in Bins |-> 2 * iBin]},
     iceAer : {ZeroPdf, [iBin \in Bins |-> 4]}]

\* x * getEngNumber() / 2.0
TimesHalfEngines(x) == (x * engNumber) \div 2

scalePdf(aer) == [iBin \in Bins |-> TimesHalfEngines(aer[iBin])]

\* The test taken as "more than two engines".
PlumesMerged_MoreThanTwo == engNumber > 2

\* The test that guards the scaling of the early-plume results.
PlumesMerged == engNumber # 2

EngineScaled(x) == IF PlumesMerged THEN TimesHalfEngines(x) ELSE x

EngineScaledPdf(aer) == IF PlumesMerged THEN scalePdf(aer) ELSE aer

\* 2 with emitted particles, 1 with background particles only, 0 with none.
MicrophysicsLevel(emitted, background) ==
    IF emitted # 0 THEN 2 ELSE IF background # 0 THEN 1 ELSE 0

\* Liquid aerosol bins transported whenever the level is not 1.
TRANSPORT_LA_NotBackground == LA_MICROPHYSICS # 1

TRANSPORT_LA == LA_MICROPHYSICS = 2

\* Solid aerosol bins transported whenever there are solid particles.
TRANSPORT_PA_AnyLevel == PA_MICROPHYSICS # 0

TRANSPORT_PA == PA_MICROPHYSICS = 2

\* Terminal settling velocity of a bin: grows with the bin's radius.
SettlingVelocity(iBin) == iBin

\* Emission added to the cells of the innermost ring.
addEmission(f) == [c \in Cells |-> IF c = 1 THEN f[c] + emitSO4 ELSE f[c]]

(***************************************************************************)
(* Solvers: the advection each runs with.                                  *)
(***************************************************************************)
\* The prescribed uniform velocity (vx, vy) of the domain.
PrescribedV == <<0, 1>>

AdvGlobal(time) == PrescribedV

\* The gas-phase solver handed the domain-wide velocity.
GasAdvection_Global(v) == v

\* The advection handed to the gas-phase solver at each step.
GasAdvection(v) == <<0, 0>>

\* The microphysics solver left with the advection of its last call.
MicroPhysReset_Carry == MicroPhysAdv

\* The advection handed to the microphysics solver ahead of the soot fields.
MicroPhysReset == <<0, 0>>

\* Every solid-aerosol bin settling as the first one.
PAAdvection_FirstBin(iBin) == <<0, vFall[1]>>

\* The advection handed to the microphysics solver for a solid-aerosol bin.
PAAdvection(iBin) == <<0, vFall[iBin]>>

\* Horizontal and vertical diffusion coefficients at a time since emission.
DiffParam(time) == <<2 + time \div HourS, 1>>

\* The diffusion coefficients (d_x, d_y) of the step that starts now.
DiffNow == IF DIFFUSION THEN DiffParam(curr_Time_s - tInitial_s) ELSE <<0, 0>>

\* A solver whose time step and diffusion coefficients have been updated.
Updated(step, d) == [dt |-> step, diff |-> d]

\* One Solve of a solver on a field: the advection, the time step and the
\* diffusion coefficients the solver holds when it is called.
Solved(solver, field, iBin, adv) ==
    [field |-> field, bin |-> iBin, adv |-> adv,
     dt |-> SANDS[solver].dt, diff |-> SANDS[solver].diff]

\* The solver calls of one transport stage, in order.
TransportSolves ==
    <<Solved("GasPhase", "gas", 0, GasPhaseAdv)>>
        \o [k \in 1..3 |-> Solved("MicroPhys", "soot", 0, MicroPhysReset)]
        \o (IF TRANSPORT_LA
            THEN [iBin \in Bins |-> Solved("MicroPhys", "LA", iBin, MicroPhysReset)]
            ELSE <<>>)
        \o (IF TRANSPORT_PA
            THEN [iBin \in Bins |-> Solved("MicroPhys", "PA", iBin, PAAdvection(iBin))]
            ELSE <<>>)

\* Displacement of a field transported with advection adv over a step.
Displaced(trav, adv) == <<trav[1] + adv[1] * dt, trav[2] + adv[2] * dt>>

(***************************************************************************)
(* Chemistry: boxes, KPP inputs and rate tables.                           *)
(***************************************************************************)
Box(kind, idx) == [kind |-> kind, idx |-> idx]

AmbientBox == Box("ambient", 0)

\* Water of a box: the rings, innermost first, and the cells hold more of it
\* than the ambient air.
BoxH2O(box) ==
    CASE box.kind = "ring" -> Background + NRING - box.idx
      [] box.kind = "cell" -> Background + box.idx
      [] OTHER -> Background

\* KPP inputs left as the previous box loaded them.
getData_Stale(box) == varArray

\* Load of the KPP inputs of a box (of which the model keeps the water).
getData(box) == BoxH2O(box)

\* Aerosol surface area over the cells of a ring.
getAerosolProp(iR) == iR + 1

ZeroRCONST == [iReact \in 1..NREACT |-> 0]

ClearRCONST(R) == ZeroRCONST

\* Every rate constant re-evaluated from the water handed over.
Update_RCONST(R, H2O) == [iReact \in 1..NREACT |-> iReact * H2O]

ZeroHET == [rh |-> 0, area |-> 0]

ClearHET(H) == ZeroHET

\* Heterogeneous rates from the humidity and the aerosol surface area.
GC_SETHET(H, H2O, area) == [rh |-> H2O, area |-> area]

\* Indices at which the rate updates of a box read the meteorology: the
\* loop variables as they stand in the per-cell build, none with rings
\* (where the updates take temperature_K).
MetIndex(box) == IF RINGS THEN <<>> ELSE <<iNx, jNy>>

\* Temperature of the meteorology field at row j.
MetTemp(i, j) == temperature_K - j

\* What a read of met.temp at `index' may return: the field inside its
\* bounds, whatever lies in memory outside of them.
MetRead(index) ==
    IF index = <<>>
    THEN {temperature_K}
    ELSE IF index[1] \in 0..(NX - 1) /\ index[2] \in 0..(NY - 1)
         THEN {MetTemp(index[1], index[2])}
         ELSE {0, MetTemp(NX - 1, NY - 1)}

\* Rate updates and bookkeeping of the KPP_Main call for `box'.
Rates(box, ierr) ==
    /\ varArray' = getData(box)
    /\ AerosolArea' = IF HETCHEMISTRY /\ box.kind = "ring"
                      THEN getAerosolProp(box.idx)
                      ELSE AerosolArea
    /\ HET' = IF HETCHEMISTRY
              THEN GC_SETHET(ClearHET(HET), varArray', AerosolArea')
              ELSE HET
    /\ nHet' = IF HETCHEMISTRY THEN nHet + 1 ELSE nHet
    /\ RCONST' = Update_RCONST(ClearRCONST(RCONST), varArray')
    /\ nRates' = nRates + 1
    /\ \E T \in MetRead(MetIndex(box)) :
          kppLog' = Append(kppLog, [box |-> box, RCONST |-> RCONST', HET |-> HET',
                                    applied |-> ~(ierr < 0),
                                    met |-> MetIndex(box), T |-> T])

(***************************************************************************)
(* Mass checks: the NOy and CO2 sums of the diagnostics.                   *)
(***************************************************************************)
\* The terms of mass_Ambient_NOy: weight and species.
AmbientNOyTerms ==
    <<<<1, "NO">>, <<1, "NO2">>, <<1, "NO3">>, <<1, "HNO2">>,
      <<1, "HNO3">>, <<1, "HNO4">>, <<2, "N2O5">>, <<1, "PAN">>,
      <<1, "MPN">>, <<1, "N">>, <<1, "PROPNN">>, <<1, "BrNO2">>,
      <<1, "BrNO3">>, <<1, "ClNO2">>, <<1, "ClNO3">>, <<1, "PPN">>,
      <<1, "PRPN">>, <<1, "R4N1">>, <<1, "PRN1">>, <<1, "R4N2">>,
      <<2, "N2O">>>>

\* The mesh sum with N2O5 counted once.
MeshNOyTerms_N2O5Once == [AmbientNOyTerms EXCEPT ![7] = <<1, "N2O5">>]

\* The terms summed in each cell of the mesh.
MeshNOyTerms ==
    <<<<1, "NO">>, <<1, "NO2">>, <<1, "NO3">>, <<1, "HNO2">>,
      <<1, "HNO3">>, <<1, "HNO4">>, <<2, "N2O5">>, <<1, "PAN">>,
      <<1, "MPN">>, <<1, "N">>, <<1, "PROPNN">>, <<1, "BrNO2">>,
      <<1, "BrNO3">>, <<1, "ClNO2">>, <<1, "ClNO3">>, <<1, "PPN">>,
      <<1, "PRPN">>, <<1, "R4N1">>, <<1, "PRN1">>, <<1, "R4N2">>,
      <<2, "N2O">>>>

\* The terms summed in each ring.
RingNOyTerms ==
    <<<<1, "NO">>, <<1, "NO2">>, <<1, "NO3">>, <<1, "HNO2">>,
      <<1, "HNO3">>, <<1, "HNO4">>, <<2, "N2O5">>, <<1, "PAN">>,
      <<1, "MPN">>, <<1, "N">>, <<1, "PROPNN">>, <<1, "BrNO2">>,
      <<1, "BrNO3">>, <<1, "ClNO2">>, <<1, "ClNO3">>, <<1, "PPN">>,
      <<1, "PRPN">>, <<1, "R4N1">>, <<1, "PRN1">>, <<1, "R4N2">>,
      <<2, "N2O">>>>

\* The species of which the model keeps a concentration.
Species == {RingNOyTerms[k][2] : k \in 1..Len(RingNOyTerms)} \cup {"CO2"}

RECURSIVE WeightedSum(_, _, _)
WeightedSum(terms, conc, n) ==
    IF n = 0
    THEN 0
    ELSE WeightedSum(terms, conc, n - 1) + terms[n][1] * conc[terms[n][2]]

\* Areas of the cells and of the rings.
cellAreas == [c \in Cells |-> c]
ringArea == [k \in 1..NRING |-> k + 1]

\* The sums as uninitialised doubles never read before they are assigned.
ZeroMass ==
    [mass_Ambient_NOy |-> 0, mass_Emitted_NOy |-> 0, mass_Emitted_NOy_Rings |-> 0,
     mass_Ambient_CO2 |-> 0, mass_Emitted_CO2 |-> 0, mass_Emitted_CO2_Rings |-> 0]

\* The NOy and CO2 checks of a step: ambient value, emitted column over the
\* mesh and, with rings, over the rings (ring iRing is entry iRing + 1).
MassChecks(rings) ==
    LET ambNOy == WeightedSum(AmbientNOyTerms, massIn.ambientData, Len(AmbientNOyTerms))
        ambCO2 == massIn.ambientData["CO2"]
    IN  [mass_Ambient_NOy |-> ambNOy,
         mass_Emitted_NOy |->
            SumTo([c \in Cells |->
                     (WeightedSum(MeshNOyTerms, massIn.Data[c], Len(MeshNOyTerms))
                        - ambNOy) * cellAreas[c]], NX * NY),
         mass_Emitted_NOy_Rings |->
            IF rings
            THEN SumTo([k \in 1..NRING |->
                          (WeightedSum(RingNOyTerms, massIn.ringSpecies[k], Len(RingNOyTerms))
                             - ambNOy) * ringArea[k]], NRING)
            ELSE mass.mass_Emitted_NOy_Rings,
         mass_Ambient_CO2 |-> ambCO2,
         mass_Emitted_CO2 |->
            SumTo([c \in Cells |-> (massIn.Data[c]["CO2"] - ambCO2) * cellAreas[c]],
                  NX * NY),
         mass_Emitted_CO2_Rings |->
            IF rings
            THEN SumTo([k \in 1..NRING |->
                          (massIn.ringSpecies[k]["CO2"] - ambCO2) * ringArea[k]], NRING)
            ELSE mass.mass_Emitted_CO2_Rings]

\* A composition with one species set apart from the others.
Composition(hot, amount) == [s \in Species |-> IF s = hot THEN amount ELSE 1]

\* Composition conc with `extra' more of species s.
Enriched(conc, s, extra) == [conc EXCEPT ![s] = @ + extra]

\* Ambient record, mesh and ring record read by the checks: the plume, if
\* any, is an excess of one species in the first cell and innermost ring.
MassInputs ==
    {[ambientData |-> Composition(hot, amount),
      Data |-> [c \in Cells |->
                  IF c = 1 THEN Enriched(Composition(hot, amount), s, extra)
                  ELSE Composition(hot, amount)],
      ringSpecies |-> [k \in 1..NRING |->
                         IF k = 1 THEN Enriched(Composition(hot, amount), s, extra)
                         ELSE Composition(hot, amount)]] :
        hot \in Species, amount \in {0, 2}, s \in Species, extra \in {0, 3}}

(***************************************************************************)
(* Stages of one time step, in the order of the source text.               *)
(***************************************************************************)
StageOrder == <<"transport", "partition", "chemistry", "coagulation",
                "snapshot", "diagnostics">>

Rank(name) == CHOOSE r \in 1..Len(StageOrder) : StageOrder[r] = name

Ran(name) == [step |-> nTime, name |-> name]

\* The loop body with partitioning placed ahead of transport.
BodyOrder_PartitionFirst == <<"partition", "transport", "photolysis", "chem", "coag",
                              "snapshot", "diag", "advance">>

\* Sections of the loop body, in the order of the source text.
BodyOrder == <<"transport", "partition", "photolysis", "chem", "coag",
               "snapshot", "diag", "advance">>

\* The section that follows section p.
After(p) == BodyOrder[(CHOOSE k \in 1..Len(BodyOrder) : BodyOrder[k] = p) + 1]

KPPStatus == {-1, 0, 1}

\* Sunrise and sunset hours of the runs considered.
SunTimes == {<<6, 18>>, <<5, 17>>}

\* Sunrise and sunset hours for which the time grid alone is examined.
SunHours == {<<r, s>> : r \in 4..7, s \in 16..19}

\* A failure test that lets the status -1 through.
KPPFailed_Lenient(ierr) == ierr < -1

\* A failure test that also rejects the status 0.
KPPFailed_Strict(ierr) == ierr <= 0

\* The test of the status returned by KPP_Main.
KPPFailed(ierr) == ierr < 0

nRing == NRING

\* The ring loop stopping one ring short.
RingLoopContinues_Short(i) == i + 1 < nRing - 1

\* The test of the ring loop after its increment.
RingLoopContinues(i) == i + 1 < nRing

(***************************************************************************)
(* Initial state: after the declarations that precede the time loop.       *)
(***************************************************************************)
\* A solver as constructed: no time step, no diffusion coefficients yet.
NewSolver == [dt |-> 0, diff |-> <<0, 0>>]

\* A run that tracks no composition for the mass checks.
NoMassCheck == massIn = <<>> /\ mass = <<>>

InitFor(Flags, TSimuls, Suns) ==
    /\ RINGS \in Flags
    /\ CHEMISTRY \in Flags
    /\ TRANSPORT_ON \in Flags
    /\ LIQ_MICROPHYSICS \in Flags
    /\ ICE_MICROPHYSICS \in Flags
    /\ SAVE_OUTPUT \in Flags
    /\ SAVE_OUTPUT => RINGS        \* output::Write takes the ring records
    /\ SAVE_LA_MICROPHYS \in Flags
    /\ SAVE_PA_MICROPHYS \in Flags
    /\ TSIMUL \in TSimuls
    /\ \E sun \in Suns :
          /\ sunRise = sun[1]
          /\ sunSet = sun[2]
    /\ timeArray = <<>>
    /\ pc = "build"
    /\ curr_Time_s = tInitial_s
    /\ dt = 0
    /\ LAST_STEP = FALSE
    /\ nTime = 0
    /\ emitSO4 \in {0, MaxEmit}
    /\ SO4T = InitialField(0)
    /\ SO4 = InitialField(0)
    /\ SO4L = [c \in Cells |-> 0]
    /\ CSZA = 0
    /\ PHOTOL = ZeroRates
    /\ lastTimeLiqCoag = 0
    /\ lastTimeIceCoag = 0
    /\ dtLiqCoag = 0
    /\ dtIceCoag = 0
    /\ saveTime_LA = <<>>
    /\ saveTime_PA = <<>>
    /\ saveOutput_LA = <<>>
    /\ saveOutput_PA = <<>>
    /\ iRing = 0
    /\ iNx = 0
    /\ jNy = 0
    /\ IERR = 0
    /\ nKPP = 0
    /\ dumped = 0
    /\ kppFailed = FALSE
    /\ photolSeen = ZeroRates
    /\ isSaved = 1
    /\ written = <<>>
    /\ ret = <<>>
    /\ stage = [step |-> 0, name |-> "init"]
    /\ fired = {}
    /\ ambIdx = {}
    /\ ringIdx = {}
    /\ Ice_den = 0
    /\ Soot_den = 0
    /\ areaPlume = 0
    /\ liquidAer = ZeroPdf
    /\ iceAer = ZeroPdf
    /\ LA_MICROPHYSICS = 0
    /\ PA_MICROPHYSICS = 0
    /\ vFall = [iBin \in Bins |-> 0]
    /\ emissions = <<>>
    /\ vGlob = <<0, 0>>
    /\ GasPhaseAdv = <<0, 0>>
    /\ MicroPhysAdv = <<0, 0>>
    /\ solved = <<>>
    /\ gasTrav = <<0, 0>>
    /\ RCONST = ZeroRCONST
    /\ HET = ZeroHET
    /\ varArray = 0
    /\ kppLog = <<>>
    /\ nRates = 0
    /\ nHet = 0
    /\ SANDS = [GasPhase |-> NewSolver, MicroPhys |-> NewSolver]
    /\ coagLog = <<>>
    /\ stepLog = <<>>

\* The inputs besides the switches: advection and diffusion switches (of
\* which TRANSPORT_ON is the disjunction), heterogeneous chemistry switch,
\* engine number, early-plume results, background aerosol densities, and
\* what the aerosol-area array may hold before it is first assigned.
Inputs(AdvDiff, Het, Engines, EPMs, Backgrounds, Garbage) ==
    /\ AerosolArea \in Garbage     \* declared without an initial value
    /\ \E ad \in AdvDiff :
          /\ ADVECTION = ad[1]
          /\ DIFFUSION = ad[2]
    /\ TRANSPORT_ON = (DIFFUSION \/ ADVECTION)
    /\ HETCHEMISTRY \in Het
    /\ engNumber \in Engines
    /\ EPM \in EPMs
    /\ \E bg \in Backgrounds :
          /\ LA_nDens = bg[1]
          /\ PA_nDens = bg[2]

\* Early-plume result with emitted sulfate and ice.
Contrail == [Ice_den |-> 2, Soot_den |-> 2, areaPlume |-> 3,
             liquidAer |-> [iBin \in Bins |-> 2 * iBin],
             iceAer |-> [iBin \in Bins |-> 4]]

Init ==
    /\ InitFor(BOOLEAN, {3, MaxTSimul}, SunTimes)
    /\ Inputs({<<TRUE, TRUE>>, <<FALSE, FALSE>>}, {TRUE}, {4}, {Contrail}, {<<0, 0>>}, {0})
    /\ sweep = <<>>
    /\ NoMassCheck

\* Inputs of the time grid alone.
InitTime ==
    /\ InitFor({FALSE}, 1..MaxTSimul, SunHours)
    /\ Inputs({<<FALSE, FALSE>>}, {FALSE}, {4}, {Contrail}, {<<0, 0>>}, {0})
    /\ sweep = <<>>
    /\ NoMassCheck

\* Early-plume results in which ice number and ice distribution agree.
PlumeCases == {r \in EPMOutputs : (r.Ice_den = 0) <=> (r.iceAer = ZeroPdf)}

\* Day-long runs with chemistry and both coagulations on and no output, over
\* every transport set-up, with and without emitted and background aerosols.
InitPlume ==
    /\ InitFor(BOOLEAN, {DayS \div HourS}, {<<5, 17>>})
    /\ CHEMISTRY /\ LIQ_MICROPHYSICS /\ ICE_MICROPHYSICS
    /\ ~SAVE_OUTPUT /\ ~SAVE_LA_MICROPHYS /\ ~SAVE_PA_MICROPHYS
    /\ emitSO4 = MaxEmit
    /\ Inputs(BOOLEAN \X BOOLEAN, BOOLEAN, {4}, PlumeCases,
              {<<0, 0>>, <<1, 1>>}, {7})
    /\ sweep = <<>>
    /\ NoMassCheck

\* Inputs of the early-plume set-up alone: every engine number, every
\* early-plume result, with and without background aerosols.
InitEPM ==
    /\ InitFor({FALSE}, {1}, {<<6, 18>>})
    /\ Inputs({<<FALSE, FALSE>>}, {FALSE}, 1..MaxEngines, EPMOutputs,
              {0, 1} \X {0, 1}, {0})
    /\ sweep = <<>>
    /\ NoMassCheck

\* One-step runs with chemistry, with and without rings, over the
\* compositions read by the mass checks.
InitMass ==
    /\ InitFor(BOOLEAN, {1}, {<<6, 18>>})
    /\ CHEMISTRY /\ ~LIQ_MICROPHYSICS /\ ~ICE_MICROPHYSICS
    /\ ~SAVE_OUTPUT /\ ~SAVE_LA_MICROPHYS /\ ~SAVE_PA_MICROPHYS
    /\ emitSO4 = 0
    /\ Inputs({<<FALSE, FALSE>>}, {FALSE}, {2}, {Contrail}, {<<0, 0>>}, {0})
    /\ sweep = <<>>
    /\ massIn \in MassInputs
    /\ mass = ZeroMass

(***************************************************************************)
(* Set-up that precedes the time loop.                                     *)
(***************************************************************************)
\* Time grid; ambient and ring records of the initial time; coagulation
\* clocks; first aerosol snapshots.
Setup ==
    /\ pc = "build"
    /\ timeArray' = TimeGrid
    /\ ambIdx' = {nTime}
    /\ varArray' = getData(AmbientBox)
    /\ areaPlume' = 2 * EPM.areaPlume
    /\ Ice_den' = EngineScaled(EPM.Ice_den)
    /\ Soot_den' = EngineScaled(EPM.Soot_den)
    /\ liquidAer' = EngineScaledPdf(EPM.liquidAer)
    /\ iceAer' = EngineScaledPdf(EPM.iceAer)
    /\ LA_MICROPHYSICS' = MicrophysicsLevel(Moment(liquidAer'), LA_nDens)
    /\ PA_MICROPHYSICS' = MicrophysicsLevel(Ice_den', PA_nDens)
    /\ vFall' = IF TRANSPORT_PA'
                THEN [iBin \in Bins |-> SettlingVelocity(iBin)]
                ELSE [iBin \in Bins |-> 0]
    /\ IF RINGS
       THEN /\ ringIdx' = {nTime}
            /\ SO4T' = addEmission(SO4T)
            /\ SO4' = addEmission(SO4)
            /\ emissions' = Append(emissions, [time |-> curr_Time_s, step |-> nTime])
       ELSE /\ ringIdx' = {}
            /\ UNCHANGED <<SO4T, SO4, emissions>>
    /\ lastTimeLiqCoag' = curr_Time_s
    /\ lastTimeIceCoag' = curr_Time_s
    /\ saveTime_LA' = IF SAVE_LA_MICROPHYS THEN <<curr_Time_s>> ELSE <<>>
    /\ saveTime_PA' = IF SAVE_PA_MICROPHYS THEN <<curr_Time_s>> ELSE <<>>
    /\ saveOutput_LA' = IF SAVE_LA_MICROPHYS THEN <<0>> ELSE <<>>
    /\ saveOutput_PA' = IF SAVE_PA_MICROPHYS THEN <<0>> ELSE <<>>
    /\ pc' = "loop"
    /\ UNCHANGED <<RINGS, CHEMISTRY, TRANSPORT_ON, LIQ_MICROPHYSICS,
                   ICE_MICROPHYSICS, SAVE_OUTPUT, SAVE_LA_MICROPHYS,
                   SAVE_PA_MICROPHYS, TSIMUL, sunRise, sunSet, inVars,
                   timeVars, SO4L, sunVars, dtLiqCoag, dtIceCoag,
                   loopVars, kppVars, outVars, stage, fired,
                   advVars, RCONST, HET, AerosolArea, kppLog, nRates, nHet,
                   sweep, histVars>>

(***************************************************************************)
(* The time loop.                                                          *)
(***************************************************************************)
\* LAST_STEP raised one step early.
IsLastStep_Early(step) == curr_Time_s + 2 * step >= tFinal_s

\* Whether the iteration that advances by `step' reaches the final time.
IsLastStep(step) == curr_Time_s + step >= tFinal_s

\* The loop test passing for the first iteration only.
LoopContinues_Once == curr_Time_s < tInitial_s + 1

\* The test of the time loop.
LoopContinues == curr_Time_s < tFinal_s

\* A write made in the current step: what is written, for which ring or cell
\* (0 where it is every cell or the ambient box), under which time index.
Write(op, idx, index) == [op |-> op, idx |-> idx, index |-> index]

\* The ring record and the mesh written ahead of the failure test.
RingWrites_BeforeTest(ring, integrated) ==
    <<Write("ringSpecies.FillIn", ring, nTime + 1), Write("applyRing", ring, nTime + 1)>>

\* The writes that follow the integration of a ring: none when it failed.
RingWrites(ring, integrated) ==
    IF integrated
    THEN <<Write("ringSpecies.FillIn", ring, nTime + 1), Write("applyRing", ring, nTime + 1)>>
    ELSE <<>>

\* while-test true; time step, LAST_STEP, solver parameters.
BeginStep ==
    /\ pc = "loop"
    /\ LoopContinues
    /\ dt' = StepSize
    /\ LAST_STEP' = IsLastStep(dt')
    /\ fired' = {}
    /\ vGlob' = IF ADVECTION THEN AdvGlobal(curr_Time_s - tInitial_s) ELSE <<0, 0>>
    /\ GasPhaseAdv' = GasAdvection(vGlob')
    /\ solved' = <<>>
    /\ SANDS' = [GasPhase |-> Updated(dt', DiffNow), MicroPhys |-> Updated(dt', DiffNow)]
    /\ stepLog' = <<>>
    /\ pc' = BodyOrder[1]
    /\ UNCHANGED <<cfgVars, curr_Time_s, nTime, fieldVars, sunVars, coagVars,
                   saveVars, loopVars, kppVars, outVars, stage, idxVars,
                   plumeVars, MicroPhysAdv, gasTrav, rateVars, sweep,
                   massIn, mass, coagLog>>

\* while-test false.
ExitLoop ==
    /\ pc = "loop"
    /\ ~LoopContinues
    /\ pc' = "write_output"
    /\ UNCHANGED <<cfgVars, timeVars, fieldVars, sunVars, coagVars, saveVars,
                   loopVars, kppVars, outVars, stage, fired, idxVars,
                   plumeVars, advVars, rateVars, sweep, histVars>>

\* Advection and diffusion of the fields.
TransportStage ==
    /\ pc = "transport"
    /\ IF TRANSPORT_ON
       THEN /\ SO4' = IF DIFFUSION THEN Solve(SO4) ELSE SO4
            /\ SO4L' = IF DIFFUSION THEN Solve(SO4L) ELSE SO4L
            /\ SO4T' = IF DIFFUSION THEN Solve(SO4T) ELSE SO4T
            /\ solved' = TransportSolves
            /\ gasTrav' = Displaced(gasTrav, GasPhaseAdv)
            /\ MicroPhysAdv' = Last(solved').adv
            /\ stage' = Ran("transport")
       ELSE UNCHANGED <<fieldVars, stage, solved, gasTrav, MicroPhysAdv>>
    /\ pc' = After("transport")
    /\ stepLog' = IF TRANSPORT_ON
                  THEN Append(stepLog, Write("Transport", 0, nTime + 1))
                  ELSE stepLog
    /\ UNCHANGED <<cfgVars, timeVars, sunVars, coagVars, saveVars, loopVars,
                   kppVars, outVars, fired, idxVars,
                   plumeVars, vGlob, GasPhaseAdv, rateVars, sweep, 
                   massIn, mass, SANDS, coagLog>>

\* SO4 gas/liquid partitioning in every cell.
Partition ==
    /\ pc = "partition"
    /\ SO4L' = [c \in Cells |-> PartitionCell(SO4[c], SO4L[c], SO4T[c]).SO4L]
    /\ SO4' = [c \in Cells |-> PartitionCell(SO4[c], SO4L[c], SO4T[c]).SO4]
    /\ SO4T' = [c \in Cells |-> PartitionCell(SO4[c], SO4L[c], SO4T[c]).SO4T]
    /\ iNx' = NX
    /\ jNy' = NY
    /\ stage' = Ran("partition")
    /\ pc' = After("partition")
    /\ stepLog' = Append(stepLog, Write("SO4 partitioning", 0, nTime + 1))
    /\ UNCHANGED <<cfgVars, timeVars, sunVars, coagVars, saveVars, iRing,
                   kppVars, outVars, fired, idxVars,
                   plumeVars, advVars, rateVars, sweep, 
                   massIn, mass, SANDS, coagLog>>

\* Solar zenith angle and photolysis rates of the step.
UpdatePhotolysis ==
    /\ pc = "photolysis"
    /\ CSZA' = SunUpdate(curr_Time_s)
    /\ ambIdx' = ambIdx \cup {nTime}
    /\ PHOTOL' = PhotolysisRates(PHOTOL, CSZA')
    /\ pc' = After("photolysis")
    /\ UNCHANGED <<cfgVars, timeVars, fieldVars, coagVars, saveVars, loopVars,
                   kppVars, outVars, stage, fired, ringIdx,
                   plumeVars, advVars, rateVars, sweep, histVars>>

\* Entry of the chemistry section: ring record of the step, loop start.
ChemBegin ==
    /\ pc = "chem"
    /\ ringIdx' = IF RINGS THEN ringIdx \cup {nTime + 1} ELSE ringIdx
    /\ IF CHEMISTRY
       THEN /\ pc' = "kpp"
            /\ IF RINGS
               THEN iRing' = 0 /\ UNCHANGED <<iNx, jNy>>
               ELSE iNx' = 0 /\ jNy' = 0 /\ UNCHANGED iRing
       ELSE /\ pc' = After("chem")
            /\ UNCHANGED loopVars
    /\ kppLog' = <<>>
    /\ stepLog' = IF RINGS
                  THEN stepLog \o [k \in 1..nRing |-> Write("FillIn( Data )", k - 1, nTime + 1)]
                  ELSE stepLog
    /\ UNCHANGED <<cfgVars, timeVars, fieldVars, sunVars, coagVars, saveVars,
                   kppVars, outVars, stage, fired, ambIdx,
                   plumeVars, advVars, RCONST, HET, AerosolArea, varArray,
                   nRates, nHet, sweep, 
                   massIn, mass, SANDS, coagLog>>

\* What every KPP_Main call and its failure branch do.  The integrator's
\* effect on the concentrations is not tracked: the fields of the model are
\* the SO4 family only.
Integrate(ierr, next) ==
    /\ IERR' = ierr
    /\ nKPP' = nKPP + 1
    /\ photolSeen' = PHOTOL
    /\ stage' = Ran("chemistry")
    /\ kppFailed' = (kppFailed \/ ierr < 0)
    /\ IF KPPFailed(ierr)
       THEN /\ dumped' = nKPP'
            /\ ret' = <<KPP_FAIL>>
            /\ pc' = "done"
       ELSE /\ dumped' = dumped
            /\ ret' = ret
            /\ pc' = next

\* Chemistry of ring iRing.
KPPRing ==
    /\ pc = "kpp"
    /\ RINGS
    /\ \E ierr \in KPPStatus :
          /\ Integrate(ierr, IF RingLoopContinues(iRing) THEN "kpp" ELSE "ambient")
          /\ Rates(Box("ring", iRing), ierr)
          /\ iRing' = IF KPPFailed(ierr) THEN iRing ELSE iRing + 1
          /\ stepLog' = stepLog \o RingWrites(iRing, ~KPPFailed(ierr))
    /\ ringIdx' = ringIdx \cup {nTime + 1}
    /\ UNCHANGED <<cfgVars, timeVars, fieldVars, sunVars, coagVars, saveVars,
                   iNx, jNy, isSaved, written, fired, ambIdx,
                   plumeVars, advVars, sweep, 
                   massIn, mass, SANDS, coagLog>>

\* Chemistry of cell (iNx, jNy).
KPPCell ==
    /\ pc = "kpp"
    /\ ~RINGS
    /\ \E ierr \in KPPStatus :
          /\ Integrate(ierr, IF jNy + 1 < NY \/ iNx + 1 < NX THEN "kpp" ELSE "ambient")
          /\ Rates(Box("cell", iNx * NY + jNy + 1), ierr)
          /\ stepLog' = IF KPPFailed(ierr)
                        THEN stepLog
                        ELSE Append(stepLog, Write("applyData", iNx * NY + jNy + 1, nTime + 1))
          /\ IF KPPFailed(ierr)
             THEN UNCHANGED <<iNx, jNy>>
             ELSE IF jNy + 1 < NY
                  THEN jNy' = jNy + 1 /\ iNx' = iNx
                  ELSE /\ iNx' = iNx + 1
                       /\ jNy' = IF iNx + 1 < NX THEN 0 ELSE NY
    /\ UNCHANGED <<cfgVars, timeVars, fieldVars, sunVars, coagVars, saveVars,
                   iRing, isSaved, written, fired, idxVars,
                   plumeVars, advVars, sweep, 
                   massIn, mass, SANDS, coagLog>>

\* Chemistry of the ambient box.
KPPAmbient ==
    /\ pc = "ambient"
    /\ \E ierr \in KPPStatus :
          /\ Integrate(ierr, After("chem"))
          /\ Rates(AmbientBox, ierr)
          /\ ambIdx' = IF KPPFailed(ierr)
                       THEN ambIdx \cup {nTime}
                       ELSE ambIdx \cup {nTime, nTime + 1}
          /\ stepLog' = IF KPPFailed(ierr)
                        THEN stepLog
                        ELSE Append(stepLog, Write("ambientData.FillIn", 0, nTime + 1))
    /\ UNCHANGED <<cfgVars, timeVars, fieldVars, sunVars, coagVars, saveVars,
                   loopVars, isSaved, written, fired, ringIdx,
                   plumeVars, advVars, sweep, 
                   massIn, mass, SANDS, coagLog>>

\* The liquid cadence test without the last-step clause.
ITS_TIME_FOR_LIQ_COAGULATION_Cadence ==
    curr_Time_s - lastTimeLiqCoag >= LIQCOAG_TSTEP

ITS_TIME_FOR_LIQ_COAGULATION ==
    (curr_Time_s - lastTimeLiqCoag >= LIQCOAG_TSTEP) \/ LAST_STEP

\* The ice cadence test reading the timestamp of the liquid coagulation.
ITS_TIME_FOR_ICE_COAGULATION_LiqClock ==
    (curr_Time_s - lastTimeLiqCoag >= ICECOAG_TSTEP) \/ LAST_STEP

ITS_TIME_FOR_ICE_COAGULATION ==
    (curr_Time_s - lastTimeIceCoag >= ICECOAG_TSTEP) \/ LAST_STEP

LiqCoagFires == ITS_TIME_FOR_LIQ_COAGULATION /\ LIQ_MICROPHYSICS

IceCoagFires == ITS_TIME_FOR_ICE_COAGULATION /\ ICE_MICROPHYSICS

\* One call of Coagulate on a population: the interval it is run for, which
\* starts at the previous call of that population and lasts dtCoag.
Coagulate(population, from, dtCoag) ==
    [population |-> population, from |-> from, dt |-> dtCoag]

\* Liquid and solid aerosol coagulation.
Coagulation ==
    /\ pc = "coag"
    /\ IF LiqCoagFires
       THEN /\ dtLiqCoag' = curr_Time_s - lastTimeLiqCoag
            /\ lastTimeLiqCoag' = curr_Time_s
       ELSE UNCHANGED <<dtLiqCoag, lastTimeLiqCoag>>
    /\ IF IceCoagFires
       THEN /\ dtIceCoag' = curr_Time_s - lastTimeIceCoag
            /\ lastTimeIceCoag' = curr_Time_s
       ELSE UNCHANGED <<dtIceCoag, lastTimeIceCoag>>
    /\ fired' = fired \cup (IF LiqCoagFires THEN {"liqcoag"} ELSE {})
                      \cup (IF IceCoagFires THEN {"icecoag"} ELSE {})
    /\ coagLog' = coagLog
                    \o (IF LiqCoagFires
                        THEN <<Coagulate("liquid", lastTimeLiqCoag, curr_Time_s - lastTimeLiqCoag)>>
                        ELSE <<>>)
                    \o (IF IceCoagFires
                        THEN <<Coagulate("solid", lastTimeIceCoag, curr_Time_s - lastTimeIceCoag)>>
                        ELSE <<>>)
    /\ stage' = IF LiqCoagFires \/ IceCoagFires THEN Ran("coagulation") ELSE stage
    /\ pc' = After("coag")
    /\ UNCHANGED <<cfgVars, timeVars, fieldVars, sunVars, saveVars, loopVars,
                   kppVars, outVars, idxVars,
                   plumeVars, advVars, rateVars, sweep,
                   massIn, mass, SANDS, stepLog>>

ITS_TIME_TO_SAVE_LA_OUTPUT ==
    (curr_Time_s - Last(saveTime_LA) >= SAVE_LA_DT) \/ LAST_STEP

ITS_TIME_TO_SAVE_PA_OUTPUT ==
    (curr_Time_s - Last(saveTime_PA) >= SAVE_PA_DT) \/ LAST_STEP

SaveLAFires == SAVE_LA_MICROPHYS /\ ITS_TIME_TO_SAVE_LA_OUTPUT

SavePAFires == SAVE_PA_MICROPHYS /\ ITS_TIME_TO_SAVE_PA_OUTPUT

SnapshotTime == IF LAST_STEP THEN curr_Time_s + dt ELSE curr_Time_s

\* Capture of the aerosol snapshots.
SaveSnapshots ==
    /\ pc = "snapshot"
    /\ IF SaveLAFires
       THEN /\ saveTime_LA' = Append(saveTime_LA, SnapshotTime)
            /\ saveOutput_LA' = Append(saveOutput_LA, nTime + 1)
       ELSE UNCHANGED <<saveTime_LA, saveOutput_LA>>
    /\ IF SavePAFires
       THEN /\ saveTime_PA' = Append(saveTime_PA, SnapshotTime)
            /\ saveOutput_PA' = Append(saveOutput_PA, nTime + 1)
       ELSE UNCHANGED <<saveTime_PA, saveOutput_PA>>
    /\ fired' = fired \cup (IF SaveLAFires THEN {"saveLA"} ELSE {})
                      \cup (IF SavePAFires THEN {"savePA"} ELSE {})
    /\ stage' = IF SaveLAFires \/ SavePAFires THEN Ran("snapshot") ELSE stage
    /\ pc' = After("snapshot")
    /\ UNCHANGED <<cfgVars, timeVars, fieldVars, sunVars, coagVars, loopVars,
                   kppVars, outVars, idxVars,
                   plumeVars, advVars, rateVars, sweep, histVars>>

\* NOy and CO2 mass checks.
Diagnostics ==
    /\ pc = "diag"
    /\ ambIdx' = ambIdx \cup {nTime + 1}
    /\ ringIdx' = IF RINGS THEN ringIdx \cup {nTime + 1} ELSE ringIdx
    /\ iNx' = NX
    /\ jNy' = NY
    /\ iRing' = IF RINGS THEN nRing ELSE iRing
    /\ mass' = IF massIn = <<>> THEN mass ELSE MassChecks(RINGS)
    /\ stage' = Ran("diagnostics")
    /\ pc' = After("diag")
    /\ UNCHANGED <<cfgVars, timeVars, fieldVars, sunVars, coagVars, saveVars,
                   kppVars, outVars, fired,
                   plumeVars, advVars, rateVars, sweep,
                   massIn, SANDS, coagLog, stepLog>>

\* End of the loop body.
Advance ==
    /\ pc = "advance"
    /\ curr_Time_s' = curr_Time_s + dt
    /\ nTime' = nTime + 1
    /\ pc' = "loop"
    /\ UNCHANGED <<cfgVars, dt, LAST_STEP, fieldVars, sunVars, coagVars, saveVars,
                   loopVars, kppVars, outVars, stage, fired, idxVars,
                   plumeVars, advVars, rateVars, sweep, histVars>>

(***************************************************************************)
(* Output writes after the loop.                                           *)
(***************************************************************************)
\* The result of a write left unchecked.
SaveFailed_Unchecked(res) == FALSE

\* The test of the result of a write.
SaveFailed(res) == res = SAVE_FAILURE

\* One write, when compiled in: its result, the failure return.
WriteFile(enabled, file, next, retNext) ==
    IF enabled
    THEN \E res \in {SAVE_FAILURE, SAVE_SUCCESS} :
            /\ isSaved' = res
            /\ written' = Append(written, [file |-> file, res |-> res])
            /\ IF SaveFailed(res)
               THEN ret' = <<SAVE_FAIL>> /\ pc' = "done"
               ELSE ret' = retNext /\ pc' = next
    ELSE /\ UNCHANGED <<isSaved, written>>
         /\ ret' = retNext
         /\ pc' = next

WriteOutput ==
    /\ pc = "write_output"
    /\ WriteFile(SAVE_OUTPUT, "output", "write_la", ret)
    /\ UNCHANGED <<cfgVars, timeVars, fieldVars, sunVars, coagVars, saveVars,
                   loopVars, kppVars, stage, fired, idxVars,
                   plumeVars, advVars, rateVars, sweep, histVars>>

WriteLA ==
    /\ pc = "write_la"
    /\ WriteFile(SAVE_LA_MICROPHYS, "LA", "write_pa", ret)
    /\ UNCHANGED <<cfgVars, timeVars, fieldVars, sunVars, coagVars, saveVars,
                   loopVars, kppVars, stage, fired, idxVars,
                   plumeVars, advVars, rateVars, sweep, histVars>>

\* The last write and the final return.
WritePA ==
    /\ pc = "write_pa"
    /\ WriteFile(SAVE_PA_MICROPHYS, "PA", "done", <<SUCCESS>>)
    /\ UNCHANGED <<cfgVars, timeVars, fieldVars, sunVars, coagVars, saveVars,
                   loopVars, kppVars, stage, fired, idxVars,
                   plumeVars, advVars, rateVars, sweep, histVars>>

(***************************************************************************)
(* Parameter sweep: invocations of the driver on different threads.  Each  *)
(* has its own locals (sun, KPP inputs, ring index, aerosol area); PHOTOL, *)
(* RCONST and HET are the tables of KPP_Global.h, of which the process     *)
(* holds one copy.  One chemistry section of each invocation is followed.  *)
(***************************************************************************)
Threads == 1..NTHREAD

\* The boxes of a chemistry section in the order visited: rings, ambient.
SweepBox(k) == IF k <= nRing THEN Box("ring", k - 1) ELSE AmbientBox

\* Water of a box in the run of thread t: the cases of a sweep differ in
\* their humidity.
SweepH2O(t, box) == sweep[t].rh * BoxH2O(box)

\* An invocation about to enter the photolysis update of a step.
SweepStart(csza, rh) ==
    [pc |-> "photolysis", CSZA |-> csza, rh |-> rh, box |-> 1,
     AerosolArea |-> 0, calls |-> <<>>]

InitSweep ==
    /\ InitFor({TRUE}, {1}, {<<6, 18>>})
    /\ emitSO4 = 0
    /\ Inputs({<<TRUE, TRUE>>}, BOOLEAN, {2}, {Contrail}, {<<0, 0>>}, {0})
    /\ NoMassCheck
    /\ sweep \in [Threads -> {SweepStart(csza, rh) : csza \in {0, 1}, rh \in {1, 2}}]

driverVars == <<cfgVars, pc, timeVars, fieldVars, CSZA, coagVars, saveVars,
                loopVars, kppVars, outVars, stage, fired, idxVars,
                plumeVars, advVars, AerosolArea, varArray, kppLog, nRates,
                nHet, histVars>>

\* Thread t clears PHOTOL and reads the rates of its own sun.
SweepPhotolysis(t) ==
    /\ sweep[t].pc = "photolysis"
    /\ PHOTOL' = PhotolysisRates(PHOTOL, sweep[t].CSZA)
    /\ sweep' = [sweep EXCEPT ![t].pc = "rates"]
    /\ UNCHANGED <<driverVars, RCONST, HET>>

\* Thread t loads its next box and updates HET and RCONST for it.
SweepRates(t) ==
    /\ sweep[t].pc = "rates"
    /\ LET box == SweepBox(sweep[t].box)
           area == IF HETCHEMISTRY /\ box.kind = "ring"
                   THEN getAerosolProp(box.idx)
                   ELSE sweep[t].AerosolArea
       IN  /\ HET' = IF HETCHEMISTRY
                     THEN GC_SETHET(ClearHET(HET), SweepH2O(t, box), area)
                     ELSE HET
           /\ RCONST' = Update_RCONST(ClearRCONST(RCONST), SweepH2O(t, box))
           /\ sweep' = [sweep EXCEPT ![t].pc = "kpp", ![t].AerosolArea = area]
    /\ UNCHANGED <<driverVars, PHOTOL>>

\* Thread t integrates its box with the tables as they stand.
SweepKPP(t) ==
    /\ sweep[t].pc = "kpp"
    /\ sweep' = [sweep EXCEPT
                    ![t].calls = Append(@, [box |-> SweepBox(sweep[t].box),
                                            PHOTOL |-> PHOTOL,
                                            RCONST |-> RCONST,
                                            HET |-> HET]),
                    ![t].box = @ + 1,
                    ![t].pc = IF sweep[t].box <= nRing THEN "rates" ELSE "done"]
    /\ UNCHANGED <<driverVars, PHOTOL, RCONST, HET>>

(***************************************************************************)
(* Properties.                                                             *)
(***************************************************************************)
Body == Range(BodyOrder) \cup {"kpp", "ambient"}

AfterLoop == {"write_output", "write_la", "write_pa"}

\* Stage t may directly follow stage s.
StageFollows(s, t) ==
    IF s.name = "init"
    THEN t.step = 0
    ELSE \/ t.step = s.step /\ Rank(s.name) < Rank(t.name)
         \/ t.step = s.step + 1 /\ s.name = "diagnostics"

\* C1: within a time step the subsystems that run do so in the order
\* transport, partitioning, chemistry, coagulation, (snapshot), diagnostics,
\* and the first subsystem of the next step runs only after the diagnostics
\* of the current one.
C1_StageOrder == [][stage' # stage => StageFollows(stage, stage')]_vars

C1_Witness ==
    /\ pc = "advance"
    /\ nTime >= 1
    /\ TRANSPORT_ON /\ CHEMISTRY
    /\ photolSeen # ZeroRates
    /\ {"liqcoag", "icecoag"} \subseteq fired
    /\ stage = Ran("diagnostics")

\* C2: once a KPP_Main call has returned a negative status the driver has
\* returned KPP_FAIL, the rates and concentrations of that call have been
\* dumped, no file has been written, the last subsystem that ran is the
\* chemistry of that step, and nothing changes afterwards.
C2_KPPFailAborts ==
    /\ [](kppFailed => /\ ret = <<KPP_FAIL>>
                       /\ pc = "done"
                       /\ IERR < 0
                       /\ dumped = nKPP
                       /\ written = <<>>
                       /\ stage = Ran("chemistry"))
    /\ [][kppFailed => UNCHANGED vars]_vars

C2_Witness ==
    /\ kppFailed
    /\ nTime >= 1
    /\ nKPP >= 4
    /\ dumped = nKPP

AllWritesSucceeded == \A k \in 1..Len(written) : written[k].res # SAVE_FAILURE

EnabledWrites ==
    (IF SAVE_OUTPUT THEN <<"output">> ELSE <<>>)
        \o (IF SAVE_LA_MICROPHYS THEN <<"LA">> ELSE <<>>)
        \o (IF SAVE_PA_MICROPHYS THEN <<"PA">> ELSE <<>>)

WrittenFiles == [k \in 1..Len(written) |-> written[k].file]

\* C3: the driver returns SUCCESS exactly when no KPP_Main call returned a
\* negative status and no write reported a failure (every write compiled in
\* having been made); the three return values are pairwise distinct and
\* exactly one of them is returned.
C3_ReturnStatus ==
    /\ Cardinality({SUCCESS, KPP_FAIL, SAVE_FAIL}) = 3
    /\ pc # "done" => ret = <<>>
    /\ pc = "done" =>
          /\ ret \in {<<SUCCESS>>, <<KPP_FAIL>>, <<SAVE_FAIL>>}
          /\ (ret = <<SUCCESS>>) <=> (~kppFailed /\ AllWritesSucceeded)
          /\ (ret = <<SUCCESS>>) => WrittenFiles = EnabledWrites

C3_Witness ==
    /\ pc = "done"
    /\ ret = <<SUCCESS>>
    /\ Len(written) = 3
    /\ nKPP > 0
    /\ IERR = 0

IsPrefix(s, t) == Len(s) <= Len(t) /\ \A k \in 1..Len(s) : s[k] = t[k]

\* C4: writes are made only after the time loop, in the order species
\* output, LA microphysics, PA microphysics; a write that reports a failure
\* is the last one made and the driver has then returned SAVE_FAIL; what was
\* written before is never undone.
C4_WriteFailure ==
    /\ [](/\ IsPrefix(WrittenFiles, EnabledWrites)
          /\ written # <<>> => (~(curr_Time_s < tFinal_s) /\ pc \in AfterLoop \cup {"done"})
          /\ \A k \in 1..Len(written) :
                written[k].res = SAVE_FAILURE =>
                    (k = Len(written) /\ ret = <<SAVE_FAIL>> /\ pc = "done"))
    /\ [][IsPrefix(written, written')]_vars

C4_Witness ==
    /\ Len(written) = 2
    /\ written[1] = [file |-> "output", res |-> SAVE_SUCCESS]
    /\ written[2] = [file |-> "LA", res |-> SAVE_FAILURE]
    /\ SAVE_PA_MICROPHYS
    /\ ret = <<SAVE_FAIL>>

Optional == {"liqcoag", "icecoag", "saveLA", "savePA"}

\* C5 as stated: at the end of the last step all four optional subsystems
\* have fired.
C5_Original == (pc = "advance" /\ LAST_STEP) => fired = Optional

\* C5: at the end of the last step every optional subsystem that is switched
\* on has fired, whatever the time elapsed since it last fired, and none
\* that is switched off has.
C5_LastStepFires ==
    (pc = "advance" /\ LAST_STEP) =>
        /\ "liqcoag" \in fired <=> LIQ_MICROPHYSICS
        /\ "icecoag" \in fired <=> ICE_MICROPHYSICS
        /\ "saveLA" \in fired <=> SAVE_LA_MICROPHYS
        /\ "savePA" \in fired <=> SAVE_PA_MICROPHYS

C5_Witness ==
    /\ pc = "advance"
    /\ LAST_STEP
    /\ fired = Optional
    /\ dtLiqCoag < LIQCOAG_TSTEP
    /\ dtIceCoag < ICECOAG_TSTEP
    /\ curr_Time_s - saveTime_LA[Len(saveTime_LA) - 1] < SAVE_LA_DT
    /\ curr_Time_s - saveTime_PA[Len(saveTime_PA) - 1] < SAVE_PA_DT

\* C6: the time grid is strictly increasing, starts at the initial time and
\* ends at the final time.
C6_TimeGrid ==
    pc # "build" =>
        /\ Len(timeArray) >= 1
        /\ \A k \in 1..(Len(timeArray) - 1) : timeArray[k] < timeArray[k + 1]
        /\ timeArray[1] = tInitial_s
        /\ Last(timeArray) = tFinal_s

C6_Witness ==
    /\ pc # "build"
    /\ Len(timeArray) >= 10
    /\ \E k \in 1..(Len(timeArray) - 2) :
          timeArray[k + 1] - timeArray[k] < TRANSPORT_TIMESTEP
    /\ Last(timeArray) - timeArray[Len(timeArray) - 1] < TRANSPORT_TIMESTEP

SunCrossings ==
    {HourS * sunRise + k * DayS : k \in 0..(tFinal_s \div DayS)}
        \cup {HourS * sunSet + k * DayS : k \in 0..(tFinal_s \div DayS)}

\* C7: every sunrise and sunset instant between the initial and the final
\* time, of the first day and of later days, is a point of the time grid.
C7_SunCrossings ==
    pc # "build" =>
        \A e \in SunCrossings :
            (tInitial_s <= e /\ e <= tFinal_s) => e \in Range(timeArray)

C7_Witness ==
    /\ pc # "build"
    /\ (HourS * sunSet - tInitial_s) % TRANSPORT_TIMESTEP # 0
    /\ HourS * sunSet \in Range(timeArray)
    /\ HourS * sunRise + DayS < tFinal_s
    /\ HourS * sunRise + DayS \in Range(timeArray)

C9_Partition ==
    /\ [](pc = After("partition") => \A c \in Cells : SO4[c] + SO4L[c] = SO4T[c])
    /\ [][pc = "partition" => SO4T' = SO4T]_vars

C9_Witness ==
    /\ pc = After("partition")
    /\ nTime >= 1
    /\ TRANSPORT_ON
    /\ \E c \in Cells : SO4L[c] > 0 /\ SO4[c] > 0 /\ SO4T[c] % FracDen # 0

\* C10: in a step whose cosine of the solar zenith angle is zero or negative
\* the photolysis rates are all zero throughout the chemistry section, and
\* every integration of the step has seen the zero vector.
C10_NightRates ==
    CSZA <= 0 =>
        /\ pc \in {"chem", "kpp", "ambient"} => PHOTOL = ZeroRates
        /\ (nKPP > 0 /\ stage = Ran("chemistry")) => photolSeen = ZeroRates

C10_Witness ==
    /\ CSZA < 0
    /\ nTime >= 1
    /\ stage = Ran("chemistry")
    /\ pc = "ambient"
    /\ photolSeen = ZeroRates

SolvedOf(field) == {k \in 1..Len(solved) : solved[k].field = field}

\* C11: with no emitted sulfate and no background liquid aerosol the level
\* LA_MICROPHYSICS is 0 and no transport stage solves a liquid-aerosol bin;
\* with no emitted ice and no background solid aerosol PA_MICROPHYSICS is 0
\* and no transport stage solves a solid-aerosol bin.
C11_TransportSkipped ==
    pc # "build" =>
        /\ (Moment(liquidAer) = 0 /\ LA_nDens = 0) =>
              (LA_MICROPHYSICS = 0 /\ SolvedOf("LA") = {})
        /\ (Ice_den = 0 /\ PA_nDens = 0) =>
              (PA_MICROPHYSICS = 0 /\ SolvedOf("PA") = {})

C11_Witness ==
    /\ pc = After("transport")
    /\ nTime >= 1
    /\ ADVECTION
    /\ Moment(liquidAer) = 0 /\ LA_nDens = 0
    /\ SolvedOf("LA") = {}
    /\ Cardinality(SolvedOf("PA")) = NBIN
    /\ Cardinality(SolvedOf("soot")) = 3

\* Time elapsed since the start of the run.
Elapsed == curr_Time_s - tInitial_s

\* C12 as stated: with advection on, the gas-phase solver is handed the
\* velocity computed by AdvGlobal and the gas fields have moved by that
\* velocity times the elapsed time.
C12_Original ==
    ADVECTION =>
        /\ \A k \in SolvedOf("gas") : solved[k].adv = vGlob
        /\ pc \in AfterLoop =>
              gasTrav = <<PrescribedV[1] * Elapsed, PrescribedV[2] * Elapsed>>

\* C12: the gas-phase solver is handed a zero advection velocity at every
\* step, whatever the velocity AdvGlobal has computed, and the transport
\* stage never translates the gas fields.
C12_GasNotAdvected ==
    /\ \A k \in SolvedOf("gas") : solved[k].adv = <<0, 0>>
    /\ GasPhaseAdv = <<0, 0>>
    /\ gasTrav = <<0, 0>>

C12_Witness ==
    /\ pc \in AfterLoop
    /\ ADVECTION /\ ~DIFFUSION
    /\ nTime >= 2
    /\ vGlob = PrescribedV
    /\ vGlob # <<0, 0>>
    /\ gasTrav = <<0, 0>>

\* C13: after the early-plume set-up the plume area is twice the single-
\* engine area; with an engine number other than 2 the ice number density,
\* the soot number density and every bin of the emitted liquid and ice
\* distributions are the single-engine values times half the engine number,
\* and with 2 engines they are the single-engine values (which is the same
\* scaling, half of 2 being 1).
C13_EngineScaling ==
    pc # "build" =>
        /\ areaPlume = 2 * EPM.areaPlume
        /\ 2 * Ice_den = engNumber * EPM.Ice_den
        /\ 2 * Soot_den = engNumber * EPM.Soot_den
        /\ \A iBin \in Bins :
              /\ 2 * liquidAer[iBin] = engNumber * EPM.liquidAer[iBin]
              /\ 2 * iceAer[iBin] = engNumber * EPM.iceAer[iBin]
        /\ engNumber = 2 =>
              /\ Ice_den = EPM.Ice_den
              /\ Soot_den = EPM.Soot_den
              /\ liquidAer = EPM.liquidAer
              /\ iceAer = EPM.iceAer

C13_Witness ==
    /\ pc = "loop"
    /\ engNumber = 3
    /\ EPM = Contrail
    /\ areaPlume = 6
    /\ Ice_den = 3
    /\ Soot_den = 3
    /\ liquidAer[NBIN] = 3 * NBIN
    /\ iceAer[1] = 6

\* C14 as stated: in the per-ring and in the per-cell configuration alike, the
\* emission has been injected exactly once when the time loop starts, at the
\* initial time and ahead of the first step, and is not injected again.
C14_EmittedOnce ==
    pc # "build" =>
        /\ Len(emissions) = 1
        /\ emissions[1].time = tInitial_s
        /\ emissions[1].step = 0

\* The per-cell configuration has run to the end without any injection.
C14_Witness ==
    /\ ~RINGS
    /\ pc \in AfterLoop
    /\ nTime >= 2
    /\ emitSO4 > 0
    /\ emissions = <<>>
    /\ \A c \in Cells : SO4T[c] = Background

\* The rate tables thread t computes for a box.
OwnRates(t, box) ==
    [PHOTOL |-> PhotolysisRates(ZeroRates, sweep[t].CSZA),
     RCONST |-> Update_RCONST(ZeroRCONST, SweepH2O(t, box)),
     rh |-> SweepH2O(t, box)]

\* C15 as stated: every KPP_Main call of an invocation of a sweep reads the
\* PHOTOL, RCONST and HET values that the same invocation computed for that
\* step and box, whatever the interleaving with the other invocations.
C15_OwnTables ==
    \A t \in DOMAIN sweep : \A k \in 1..Len(sweep[t].calls) :
        LET call == sweep[t].calls[k]
        IN  /\ call.PHOTOL = OwnRates(t, call.box).PHOTOL
            /\ call.RCONST = OwnRates(t, call.box).RCONST
            /\ HETCHEMISTRY => call.HET.rh = OwnRates(t, call.box).rh

\* An invocation has integrated a box with rate constants another wrote.
C15_Witness ==
    \E t \in DOMAIN sweep : \E u \in DOMAIN sweep :
        /\ t # u
        /\ sweep[t].pc = "done" /\ sweep[u].pc = "done"
        /\ sweep[t].rh # sweep[u].rh
        /\ \E k \in 1..Len(sweep[t].calls) :
              LET call == sweep[t].calls[k]
              IN  /\ call.RCONST = OwnRates(u, call.box).RCONST
                  /\ call.RCONST # OwnRates(t, call.box).RCONST

\* C16: on a step that is not the last, liquid coagulation fires exactly when
\* LIQCOAG_TSTEP or more has elapsed since it last fired and LIQ_MICROPHYSICS
\* is on; it then runs for the time elapsed since it last fired and its
\* timestamp becomes the current time, and otherwise its timestamp and its
\* duration are left alone.  Ice coagulation does the same with ICECOAG_TSTEP,
\* ICE_MICROPHYSICS and its own timestamp.  No other section of the loop
\* touches the timestamps, and neither is ever ahead of the current time.
C16_CoagCadence ==
    /\ [](lastTimeLiqCoag <= curr_Time_s /\ lastTimeIceCoag <= curr_Time_s)
    /\ [][(pc = "coag" /\ ~LAST_STEP) =>
            /\ IF curr_Time_s - lastTimeLiqCoag >= LIQCOAG_TSTEP /\ LIQ_MICROPHYSICS
               THEN /\ "liqcoag" \in fired'
                    /\ dtLiqCoag' = curr_Time_s - lastTimeLiqCoag
                    /\ lastTimeLiqCoag' = curr_Time_s
               ELSE /\ "liqcoag" \notin fired'
                    /\ UNCHANGED <<dtLiqCoag, lastTimeLiqCoag>>
            /\ IF curr_Time_s - lastTimeIceCoag >= ICECOAG_TSTEP /\ ICE_MICROPHYSICS
               THEN /\ "icecoag" \in fired'
                    /\ dtIceCoag' = curr_Time_s - lastTimeIceCoag
                    /\ lastTimeIceCoag' = curr_Time_s
               ELSE /\ "icecoag" \notin fired'
                    /\ UNCHANGED <<dtIceCoag, lastTimeIceCoag>>]_vars
    /\ [][pc \notin {"build", "coag"} =>
            UNCHANGED <<lastTimeLiqCoag, lastTimeIceCoag>>]_vars

\* A step on which the liquid coagulation fired and the ice one did not.
C16_Witness ==
    /\ pc = After("coag")
    /\ ~LAST_STEP
    /\ LIQ_MICROPHYSICS /\ ICE_MICROPHYSICS
    /\ "liqcoag" \in fired /\ "icecoag" \notin fired
    /\ lastTimeLiqCoag = curr_Time_s
    /\ dtLiqCoag = LIQCOAG_TSTEP
    /\ lastTimeIceCoag < lastTimeLiqCoag
    /\ tInitial_s < lastTimeIceCoag

\* C17 as stated: after the partitioning stage every cell holds the liquid
\* part (1 - f) * SO4T and the gas part that remains, with the gaseous
\* fraction f evaluated from the temperature and the cell's total SO4T, so
\* that the outcome is a function of the temperature and SO4T alone.
C17_FractionOfTotal ==
    pc = After("partition") =>
        \A c \in Cells :
            LET f == H2SO4_GASFRAC(temperature_K, SO4T[c])
            IN  /\ SO4L[c] = LiquidPart(f, SO4T[c])
                /\ SO4[c] = SO4T[c] - SO4L[c]

\* A partitioning of the second step that undid that of the first: the same
\* total, no diffusion in between, and all of it back in the gas phase.
C17_Witness ==
    /\ pc = After("partition")
    /\ nTime = 1
    /\ ~DIFFUSION
    /\ SO4T[1] = Background + emitSO4
    /\ SO4T[1] > NSat
    /\ SO4L[1] = 0
    /\ SO4[1] = SO4T[1]
    /\ LiquidPart(H2SO4_GASFRAC(temperature_K, SO4T[1]), SO4T[1]) > 0

\* The advection of the gas-phase solve of the current transport stage.
GasSolveAdv == solved[1].adv

\* C18: in a transport stage every liquid-aerosol bin is solved with the
\* advection velocity of the gas-phase solve, and solid-aerosol bin i with
\* that velocity plus the settling velocity vFall[i] of bin i itself.
C18_BinAdvection ==
    \A k \in 1..Len(solved) :
        /\ solved[1].field = "gas"
        /\ solved[k].field = "LA" => solved[k].adv = GasSolveAdv
        /\ solved[k].field = "PA" =>
              solved[k].adv = <<GasSolveAdv[1], GasSolveAdv[2] + vFall[solved[k].bin]>>

C18_Witness ==
    /\ pc = After("transport")
    /\ nTime >= 1
    /\ ADVECTION
    /\ TRANSPORT_LA /\ TRANSPORT_PA
    /\ Cardinality(SolvedOf("LA")) = NBIN
    /\ Cardinality(SolvedOf("PA")) = NBIN
    /\ vFall[1] # vFall[NBIN]
    /\ MicroPhysAdv = <<0, vFall[NBIN]>>

\* C19: in per-ring mode the KPP_Main calls of a step are, in order, ring 0,
\* ring 1, ... ring nRing - 1, each once, and then the ambient box, which is
\* integrated only after every ring has been integrated and applied; a
\* chemistry section that completes has made all of these calls.
C19_RingOrder ==
    RINGS =>
        /\ Len(kppLog) <= nRing + 1
        /\ \A k \in 1..Len(kppLog) :
              /\ k <= nRing => kppLog[k].box = Box("ring", k - 1)
              /\ k = nRing + 1 =>
                    /\ kppLog[k].box = AmbientBox
                    /\ \A j \in 1..nRing : kppLog[j].applied
        /\ (CHEMISTRY /\ pc = After("chem")) => Len(kppLog) = nRing + 1

C19_Witness ==
    /\ RINGS
    /\ pc = After("chem")
    /\ nTime >= 1
    /\ Len(kppLog) = nRing + 1
    /\ kppLog[1].box = Box("ring", 0)
    /\ kppLog[nRing].box = Box("ring", nRing - 1)
    /\ kppLog[nRing + 1].box = AmbientBox
    /\ kppLog[nRing].applied

NitrogenCount(s) == IF s \in {"N2O5", "N2O"} THEN 2 ELSE 1

\* The species of the NOy family.
NOyFamily == Species \ {"CO2"}

RECURSIVE SumOfSet(_, _)
SumOfSet(f, S) ==
    IF S = {}
    THEN 0
    ELSE LET x == CHOOSE y \in S : TRUE
         IN  f[x] + SumOfSet(f, S \ {x})

\* NOy of a composition: every species of the family by its nitrogen count.
NOy(conc) == SumOfSet([s \in NOyFamily |-> NitrogenCount(s) * conc[s]], NOyFamily)

\* C21: once the diagnostics of a step have run, the ambient NOy is the
\* nitrogen-weighted sum over the NOy family (N2O5 and N2O twice, the others
\* once), the emitted NOy column is the sum over the cells of (NOy of the
\* cell - ambient NOy) * cell area with the same family and weights, and so
\* is the ring column over the rings; the CO2 columns are formed the same
\* way.  A mesh whose every cell equals the ambient record gives emitted NOy
\* and CO2 columns of exactly zero.
C21_MassCheck ==
    (massIn # <<>> /\ stage.name = "diagnostics") =>
        LET amb == massIn.ambientData
        IN  /\ mass.mass_Ambient_NOy = NOy(amb)
            /\ mass.mass_Emitted_NOy =
                  SumTo([c \in Cells |-> (NOy(massIn.Data[c]) - NOy(amb)) * cellAreas[c]],
                        NX * NY)
            /\ mass.mass_Emitted_CO2 =
                  SumTo([c \in Cells |-> (massIn.Data[c]["CO2"] - amb["CO2"]) * cellAreas[c]],
                        NX * NY)
            /\ RINGS =>
                  mass.mass_Emitted_NOy_Rings =
                     SumTo([k \in 1..NRING |->
                              (NOy(massIn.ringSpecies[k]) - NOy(amb)) * ringArea[k]], NRING)
            /\ (\A c \in Cells : massIn.Data[c] = amb) =>
                  (mass.mass_Emitted_NOy = 0 /\ mass.mass_Emitted_CO2 = 0)

\* A check over an ambient record rich in N2O5, once with a mesh equal to it.
C21_Witness ==
    /\ massIn # <<>>
    /\ pc = After("diag")
    /\ RINGS
    /\ massIn.ambientData["N2O5"] = 2
    /\ \A c \in Cells : massIn.Data[c] = massIn.ambientData
    /\ mass.mass_Ambient_NOy = Cardinality(NOyFamily) + 1 + 3
    /\ mass.mass_Emitted_NOy = 0
    /\ mass.mass_Emitted_NOy_Rings = 0

\* Valid indices of the meteorology field.
MetIndices == {<<i, j>> : i \in 0..(NX - 1), j \in 0..(NY - 1)}

\* C22 as stated: in the per-cell build every rate update reads the
\* meteorology at valid indices, and the ambient update that follows the
\* loop over the cells reads it at the last cell visited, (NX-1, NY-1).
C22_MetInRange ==
    ~RINGS =>
        \A k \in 1..Len(kppLog) :
            /\ kppLog[k].met \in MetIndices
            /\ kppLog[k].box = AmbientBox => kppLog[k].met = <<NX - 1, NY - 1>>

\* The ambient update of a per-cell step has read met.temp[NY][NX].
C22_Witness ==
    /\ ~RINGS
    /\ pc = After("chem")
    /\ Len(kppLog) = NX * NY + 1
    /\ kppLog[NX * NY].met = <<NX - 1, NY - 1>>
    /\ Last(kppLog).box = AmbientBox
    /\ Last(kppLog).met = <<NX, NY>>

\* C23: the step computed at every iteration is strictly positive; the end
\* of an iteration, and nothing else, moves the clock forward and adds one to
\* nTime; the loop is left through its test only with curr_Time_s >=
\* tFinal_s; and a run that has entered the loop leaves it and returns
\* (through the loop test or through the return of a failed integration).
C23_LoopTerminates ==
    /\ [](pc \in Body => dt > 0)
    /\ [][pc = "advance" => (curr_Time_s' > curr_Time_s /\ nTime' = nTime + 1)]_vars
    /\ [][pc # "advance" => UNCHANGED <<curr_Time_s, nTime>>]_vars
    /\ [](pc \in AfterLoop => curr_Time_s >= tFinal_s)
    /\ (pc = "loop") ~> (pc = "done")

\* A run that left the loop through its test after several iterations.
C23_Witness ==
    /\ pc = "write_output"
    /\ nTime >= 12
    /\ curr_Time_s >= tFinal_s
    /\ ~kppFailed

\* C24: LAST_STEP does not change within an iteration; an iteration starts
\* only if LAST_STEP was false in the one before it; and when the loop is left
\* through its test, LAST_STEP is true, as set by the final iteration.
C24_LastStepOnce ==
    /\ [][(pc \in Body) => UNCHANGED LAST_STEP]_vars
    /\ [][(pc = "loop" /\ pc' \in Body) => (~LAST_STEP /\ LAST_STEP' = IsLastStep(dt'))]_vars
    /\ [](pc \in AfterLoop => LAST_STEP)

\* The final iteration of a run of several, on its way out.
C24_Witness ==
    /\ pc = "advance"
    /\ LAST_STEP
    /\ nTime >= 2
    /\ curr_Time_s < tFinal_s
    /\ curr_Time_s + dt > tFinal_s

(***************************************************************************)
(* C25: the driver clock never passes the end of the simulation: in every  *)
(* step curr_Time_s + dt <= tFinal_s, and when the loop has been left      *)
(* through its test curr_Time_s equals tFinal_s exactly.                   *)
(***************************************************************************)
C25_NoOvershoot ==
    /\ (pc \in Body => curr_Time_s + dt <= tFinal_s)
    /\ ((pc \in AfterLoop /\ ~kppFailed) => curr_Time_s = tFinal_s)

\* The loop has been left with the clock past the final time, which is the
\* last point of the time grid.
C25_Witness ==
    /\ pc \in AfterLoop
    /\ ~kppFailed
    /\ curr_Time_s > tFinal_s
    /\ Last(timeArray) = tFinal_s

(***************************************************************************)
(* C26: the intervals over which one population is coagulated are disjoint *)
(* and consecutive, starting at tInitial_s, and once the loop has been     *)
(* left they sum to tFinal_s - tInitial_s: every simulated second, the     *)
(* last step included, is covered by exactly one call.                     *)
(***************************************************************************)
CoagCalls(population) == SelectSeq(coagLog, LAMBDA c : c.population = population)

CoagCovered(population) ==
    LET calls == CoagCalls(population)
    IN  SumTo([i \in 1..Len(calls) |-> calls[i].dt], Len(calls))

CoagConsecutive(population) ==
    LET calls == CoagCalls(population)
    IN  \A i \in 1..Len(calls) :
           /\ calls[i].dt >= 0
           /\ calls[i].from = IF i = 1 THEN tInitial_s
                              ELSE calls[i - 1].from + calls[i - 1].dt

C26_CoagCoversRun ==
    /\ CoagConsecutive("liquid")
    /\ CoagConsecutive("solid")
    /\ (pc \in AfterLoop /\ ~kppFailed) =>
          /\ LIQ_MICROPHYSICS => CoagCovered("liquid") = tFinal_s - tInitial_s
          /\ ICE_MICROPHYSICS => CoagCovered("solid") = tFinal_s - tInitial_s

\* A run whose clock ends on tFinal_s exactly, and whose coagulation calls,
\* consecutive from tInitial_s, stop one step short of it.
C26_Witness ==
    /\ pc \in AfterLoop
    /\ ~kppFailed
    /\ curr_Time_s = tFinal_s
    /\ LIQ_MICROPHYSICS /\ ICE_MICROPHYSICS
    /\ CoagConsecutive("liquid") /\ CoagConsecutive("solid")
    /\ Len(CoagCalls("liquid")) >= 2
    /\ CoagCovered("liquid") = tFinal_s - dt - tInitial_s
    /\ CoagCovered("solid") = tFinal_s - dt - tInitial_s

(***************************************************************************)
(* C27: the snapshot times and the snapshots have the same length at all   *)
(* times, the times are strictly increasing from tInitial_s, and the time  *)
(* recorded with a snapshot is the time its fields have been advanced to,  *)
(* the end of the step in which it is taken, in the last step and in the   *)
(* earlier ones alike.                                                     *)
(***************************************************************************)
SnapshotsAligned(saveTime, saveOutput) ==
    /\ Len(saveTime) = Len(saveOutput)
    /\ saveTime # <<>> => saveTime[1] = tInitial_s
    /\ \A i \in 1..(Len(saveTime) - 1) : saveTime[i] < saveTime[i + 1]

\* A snapshot has been taken in the current step: its fields are those of
\* time index nTime + 1.
SnapshotTaken(saveOutput) ==
    /\ pc = After("snapshot")
    /\ saveOutput # <<>>
    /\ Last(saveOutput) = nTime + 1

C27_SnapshotTimes ==
    /\ SnapshotsAligned(saveTime_LA, saveOutput_LA)
    /\ SnapshotsAligned(saveTime_PA, saveOutput_PA)
    /\ SnapshotTaken(saveOutput_LA) => Last(saveTime_LA) = curr_Time_s + dt
    /\ SnapshotTaken(saveOutput_PA) => Last(saveTime_PA) = curr_Time_s + dt

\* A snapshot taken before the last step, after the transport of the step,
\* and recorded with the time at which the step began.
C27_Witness ==
    /\ SnapshotTaken(saveOutput_LA)
    /\ ~LAST_STEP
    /\ dt > 0
    /\ SolvedOf("LA") # {}
    /\ SnapshotsAligned(saveTime_LA, saveOutput_LA)
    /\ Len(saveTime_LA) >= 2
    /\ Last(saveTime_LA) = curr_Time_s

(***************************************************************************)
(* C28: in a step whose transport stage runs, the bins of the liquid       *)
(* aerosol are transported if and only if the emitted liquid aerosol       *)
(* moment is non-zero (LA_MICROPHYSICS = 2), so a population that is       *)
(* background only (level 1) is never transported, though it may be        *)
(* coagulated; the same holds of the solid aerosol with the emitted ice    *)
(* density; and the levels, set before the loop, never change in the run.  *)
(***************************************************************************)
BinsSolved(field) == {solved[k].bin : k \in SolvedOf(field)}

TransportedByLevel(field, level, emitted) ==
    /\ level \in 0..2
    /\ (level = 2) <=> (emitted # 0)
    /\ BinsSolved(field) # {} => level = 2
    /\ solved # <<>> => BinsSolved(field) = IF level = 2 THEN Bins ELSE {}

C28_TransportByLevel ==
    /\ [](pc # "build" =>
            /\ TransportedByLevel("LA", LA_MICROPHYSICS, Moment(liquidAer))
            /\ TransportedByLevel("PA", PA_MICROPHYSICS, Ice_den))
    /\ [][(pc # "build") => UNCHANGED <<LA_MICROPHYSICS, PA_MICROPHYSICS>>]_vars

\* A step in which the transport stage has run and a background-only liquid
\* population has been coagulated but not transported, while the emitted
\* solid population has been transported bin by bin.
C28_Witness ==
    /\ pc = After("coag")
    /\ nTime >= 2
    /\ solved # <<>>
    /\ LA_MICROPHYSICS = 1
    /\ BinsSolved("LA") = {}
    /\ "liqcoag" \in fired
    /\ Last(CoagCalls("liquid")).dt > 0
    /\ PA_MICROPHYSICS = 2
    /\ BinsSolved("PA") = Bins

(***************************************************************************)
(* C29: the shared microphysics solver never carries a settling velocity   *)
(* into a field that does not settle: in every step, also after a step     *)
(* whose last solid-aerosol bin left the solver's advection at             *)
(* (0, vFall[last]), the soot fields and every liquid-aerosol bin are      *)
(* solved with advection (0, 0); and every Solve of a step is made by a    *)
(* solver holding the dt and the (d_x, d_y) of that step.                  *)
(***************************************************************************)
C29_NoCarriedSettling ==
    /\ \A k \in 1..Len(solved) :
          solved[k].field \in {"soot", "LA"} => solved[k].adv = <<0, 0>>
    /\ Cardinality(SolvedOf("soot")) \in {0, 3}
    /\ pc \in Body =>
          /\ SANDS.GasPhase = Updated(dt, DiffNow)
          /\ SANDS.MicroPhys = Updated(dt, DiffNow)
          /\ \A k \in 1..Len(solved) :
                solved[k].dt = dt /\ solved[k].diff = DiffNow

\* A later step, with diffusion on, entered with the solver's advection left
\* at the settling velocity of the last solid bin, in which the soot fields
\* and the liquid bins have been solved.
C29_Witness ==
    /\ pc = After("transport")
    /\ nTime >= 2
    /\ DIFFUSION
    /\ vFall[NBIN] # 0
    /\ MicroPhysAdv = <<0, vFall[NBIN]>>
    /\ Cardinality(SolvedOf("soot")) = 3
    /\ BinsSolved("LA") = Bins
    /\ \A k \in SolvedOf("soot") \cup SolvedOf("LA") :
          solved[k].adv = <<0, 0>> /\ solved[k].dt = dt /\ solved[k].diff = DiffNow
    /\ DiffNow # DiffParam(0)

(***************************************************************************)
(* C30: when the integration of ring k fails in a step, nothing is rolled  *)
(* back: the results of rings 0..k-1 are in the ring record of index       *)
(* nTime + 1 and applied to the mesh; ring k, the later rings and the      *)
(* ambient record of index nTime + 1 have not been written by chemistry;   *)
(* the transport and the SO4 partitioning of the step have been applied.   *)
(***************************************************************************)
\* The run has ended on the failure of the integration of a ring.
RingFailed ==
    /\ RINGS
    /\ pc = "done"
    /\ ret = <<KPP_FAIL>>
    /\ kppLog # <<>>
    /\ Last(kppLog).box.kind = "ring"

Written(op, idx) == Write(op, idx, nTime + 1) \in Range(stepLog)

C30_NoRollback ==
    /\ [](RingFailed =>
            /\ Last(kppLog).box = Box("ring", iRing)
            /\ \A j \in 0..(nRing - 1) :
                  /\ Written("FillIn( Data )", j)
                  /\ Written("ringSpecies.FillIn", j) <=> j < iRing
                  /\ Written("applyRing", j) <=> j < iRing
            /\ ~Written("ambientData.FillIn", 0)
            /\ (nTime + 1) \notin ambIdx
            /\ (nTime + 1) \in ringIdx
            /\ Written("SO4 partitioning", 0)
            /\ TRANSPORT_ON => Written("Transport", 0))
    /\ [][(pc' = "done" /\ ret' = <<KPP_FAIL>>) =>
             (stepLog' = stepLog /\ UNCHANGED <<fieldVars, curr_Time_s, nTime>>)]_vars

\* The second ring of a later step has failed after the first was written,
\* in a step whose transport and partitioning changed the sulfate fields.
C30_Witness ==
    /\ RingFailed
    /\ iRing = 1
    /\ nTime >= 1
    /\ TRANSPORT_ON
    /\ Written("Transport", 0)
    /\ Written("SO4 partitioning", 0)
    /\ Written("ringSpecies.FillIn", 0)
    /\ Written("applyRing", 0)
    /\ ~Written("ringSpecies.FillIn", 1)
    /\ \E c \in Cells : SO4L[c] # 0

Next ==
    \/ Setup
    \/ BeginStep
    \/ ExitLoop
    \/ TransportStage
    \/ Partition
    \/ UpdatePhotolysis
    \/ ChemBegin
    \/ KPPRing
    \/ KPPCell
    \/ KPPAmbient
    \/ Coagulation
    \/ SaveSnapshots
    \/ Diagnostics
    \/ Advance
    \/ WriteOutput
    \/ WriteLA
    \/ WritePA

Spec == Init /\ [][Next]_vars

\* The construction of the time grid on its own, over a wider set of inputs.
NextTime == Setup

SpecTime == InitTime /\ [][NextTime]_vars

\* The early-plume set-up on its own, over a wider set of inputs.
NextEPM == Setup

SpecEPM == InitEPM /\ [][NextEPM]_vars

\* The invocations of a sweep, interleaved.
NextSweep ==
    \E t \in Threads :
        \/ SweepPhotolysis(t)
        \/ SweepRates(t)
        \/ SweepKPP(t)

SpecSweep == InitSweep /\ [][NextSweep]_vars

\* The driver over the compositions of the mass checks.
SpecMass == InitMass /\ [][Next]_vars

\* The driver over the transport and aerosol set-ups.
SpecPlume == InitPlume /\ [][Next]_vars

\* The driver, being sequential code, always goes on to its next statement
\* once in the time loop, until it returns.
Progress ==
    /\ WF_vars(BeginStep)
    /\ WF_vars(ExitLoop)
    /\ WF_vars(TransportStage)
    /\ WF_vars(Partition)
    /\ WF_vars(UpdatePhotolysis)
    /\ WF_vars(ChemBegin)
    /\ WF_vars(KPPRing)
    /\ WF_vars(KPPCell)
    /\ WF_vars(KPPAmbient)
    /\ WF_vars(Coagulation)
    /\ WF_vars(SaveSnapshots)
    /\ WF_vars(Diagnostics)
    /\ WF_vars(Advance)
    /\ WF_vars(WriteOutput)
    /\ WF_vars(WriteLA)
    /\ WF_vars(WritePA)

SpecRun == SpecPlume /\ Progress

====
